---- MODULE Spec2Model ----
(***************************************************************************)
(* Model of the two maintenance scripts of the repository:                 *)
(*   scripts/cleanup-databases.py  (the Collection Wiper, MongoDB)         *)
(*   scripts/cleanup-redis.py      (the Key Pattern Purger, Redis)         *)
(* Each behaviour runs one of the two scripts (variable script).  The      *)
(* remote stores are part of the state; every remote call may raise.       *)
(* trace is the sequence of remote calls issued and lines printed by the   *)
(* current process, in program order.                                      *)
(***************************************************************************)
EXTENDS Integers, Sequences, FiniteSets, TLC

VARIABLES
    script,      \* which script this behaviour runs: "wiper" or "purger"
    pc,          \* position of the process in main()
    exitCode,    \* process exit status, -1 while the process runs
    trace,       \* remote calls and printed lines of the current process
    run,         \* number of the current invocation of the script
    fails,       \* remote failures injected so far (Wiper)
    mongo,       \* server state: database name -> sequence of collections
    mongo0,      \* server state when the current process started
    client,      \* Wiper connection: "none", "open" or "closed"
    dbIdx,       \* Wiper: index into DATABASES of the for loop at line 65
    collections, \* Wiper: result of list_collection_names() (line 71)
    colIdx,      \* Wiper: index into collections of the for loop at line 80
    kv,          \* Redis server state: the set of keys that exist
    kv0,         \* Redis server state when the process started
    badKeys,     \* Redis keys whose bytes are not valid UTF-8
    keys,        \* Purger: result of r.keys(pattern) (line 25)
    previewIdx,  \* Purger: index of the preview loop at line 33
    response,    \* Purger: the raw line read by input() (line 44)
    confirm,     \* Purger: the variable confirm (line 44)
    deleted      \* Purger: the counter deleted (line 52)

vars == <<script, pc, exitCode, trace, run, fails, mongo, mongo0, client,
          dbIdx, collections, colIdx, kv, kv0, badKeys, keys, previewIdx,
          response, confirm, deleted>>

wiperVars == <<mongo, mongo0, client, dbIdx, collections, colIdx>>
purgerVars == <<kv, kv0, badKeys, keys, previewIdx, response, confirm, deleted>>

(***************************************************************************)
(* Bounds of the model.                                                    *)
(***************************************************************************)
MaxRuns == 2      \* successive invocations of the Wiper
MaxFails == 2     \* remote failures injected into the Wiper over a behaviour
MaxKeys == 250    \* largest number of keys matching the pattern

(***************************************************************************)
(* Program constants.                                                      *)
(***************************************************************************)
DATABASES == <<"inventory", "order", "payment", "product", "auth">>
SystemPrefix == "system."
PreviewLen == 10
ProgressEvery == 100
ExitFailure == 1

(***************************************************************************)
(* Events of trace.  One record shape for calls and printed lines.         *)
(***************************************************************************)
Ev(op, db, coll, n) == [op |-> op, db |-> db, coll |-> coll, n |-> n]

\* log(msg, color): one printed line
log(msg, db, coll, n) == Ev(msg, db, coll, n)

\* a remote call issued to the server
Call(op, db, coll, n) == Ev(op, db, coll, n)

(***************************************************************************)
(* str.startswith                                                          *)
(***************************************************************************)
StartsWith(s, prefix) ==
    /\ Len(s) >= Len(prefix)
    /\ SubSeq(s, 1, Len(prefix)) = prefix

\* line 82: collection_name.startswith('system.')
IsSystemNoDot(name) == StartsWith(name, "system")

IsSystem(name) == StartsWith(name, SystemPrefix)

(***************************************************************************)
(* The MongoDB server.  A database that does not exist has no collections. *)
(***************************************************************************)
Coll(name, docs) == [name |-> name, docs |-> docs]

Absent == <<>>
Plain  == <<Coll("users", 5), Coll("orders", 5)>>
Mixed  == <<Coll("system.indexes", 2), Coll("items", 3), Coll("system", 1),
            Coll("mysystem.log", 0)>>

\* the server states a run may start from
Stores ==
    { [d \in {"inventory", "order", "payment", "product", "auth"} |-> Absent],
      [inventory |-> Plain, order |-> Plain, payment |-> Plain,
       product |-> Absent, auth |-> Absent],
      [inventory |-> Absent, order |-> Mixed, payment |-> Absent,
       product |-> Plain, auth |-> Absent],
      [inventory |-> Mixed, order |-> Absent, payment |-> Absent,
       product |-> Absent, auth |-> Mixed] }

\* db.list_collection_names()
ListCollectionNames(st, db) == [i \in 1..Len(st[db]) |-> st[db][i].name]

\* collection.count_documents({})
CountDocumentsAfterDelete(st, db, i) == 0

CountDocuments(st, db, i) == st[db][i].docs

\* collection.delete_many({})
DeleteManyNothing(st, db, i) == st

DeleteMany(st, db, i) == [st EXCEPT ![db][i].docs = 0]

(***************************************************************************)
(* Collection Wiper: scripts/cleanup-databases.py, main()                  *)
(***************************************************************************)

\* lines 102-104: the top-level handler; the connection is not closed
WiperAbort(tr) ==
    /\ trace' = Append(tr, log("ERROR", "", "", 0))
    /\ exitCode' = ExitFailure
    /\ pc' = "exited"
    /\ UNCHANGED <<dbIdx, collections, colIdx>>

\* lines 90-91: the handler around one collection; the loop goes on
CollectionFailedAbort(tr, db, name) == WiperAbort(tr) /\ UNCHANGED client

CollectionFailed(tr, db, name) ==
    /\ trace' = Append(tr, log("Failed to clean", db, name, 0))
    /\ colIdx' = colIdx + 1
    /\ UNCHANGED <<pc, exitCode, client, dbIdx, collections>>

\* line 71 raising: no handler inside the loop, so the top-level one runs
EnumerateFailedSkip(tr) ==
    /\ trace' = Append(tr, log("ERROR", "", "", 0))
    /\ dbIdx' = dbIdx + 1
    /\ UNCHANGED <<pc, exitCode, client, collections, colIdx>>

EnumerateFailed(tr) == WiperAbort(tr) /\ UNCHANGED client

\* line 61 raising: the liveness check failed
LivenessFailed(tr) == WiperAbort(tr) /\ client' = "open"

\* line 73: len(collections) == 0
NoCollectionsNever(names) == FALSE

NoCollections(names) == Len(names) = 0

\* lines 56-62: connect and test the connection
WConnect ==
    /\ script = "wiper"
    /\ pc = "connect"
    /\ LET tr == trace \o <<log("Connecting", "", "", 0),
                            Call("server_info", "", "", 0)>>
       IN  \/ /\ trace' = Append(tr, log("Connected", "", "", 0))
              /\ client' = "open"
              /\ pc' = "db_loop"
              /\ UNCHANGED <<exitCode, fails, dbIdx, collections, colIdx>>
           \/ /\ fails < MaxFails
              /\ fails' = fails + 1
              /\ LivenessFailed(tr)
    /\ UNCHANGED <<script, run, mongo, mongo0>>
    /\ UNCHANGED purgerVars

\* lines 65-77: one iteration of the database loop up to the collection loop
WNextDb ==
    /\ script = "wiper"
    /\ pc = "db_loop"
    /\ dbIdx <= Len(DATABASES)
    /\ LET db == DATABASES[dbIdx]
           tr == trace \o <<log("Cleaning database", db, "", 0),
                            Call("list_collection_names", db, "", 0)>>
           names == ListCollectionNames(mongo, db)
       IN  \/ /\ fails < MaxFails
              /\ fails' = fails + 1
              /\ EnumerateFailed(tr)
           \/ /\ NoCollections(names)
              /\ trace' = Append(tr, log("No collections found", db, "", 0))
              /\ collections' = names
              /\ dbIdx' = dbIdx + 1
              /\ UNCHANGED <<pc, exitCode, fails, client, colIdx>>
           \/ /\ ~NoCollections(names)
              /\ trace' = Append(tr, log("Found", db, "", Len(names)))
              /\ collections' = names
              /\ colIdx' = 1
              /\ pc' = "col_loop"
              /\ UNCHANGED <<exitCode, fails, client, dbIdx>>
    /\ UNCHANGED <<script, run, mongo, mongo0>>
    /\ UNCHANGED purgerVars

\* lines 80-91: one iteration of the collection loop
WCollection ==
    /\ script = "wiper"
    /\ pc = "col_loop"
    /\ colIdx <= Len(collections)
    /\ LET db == DATABASES[dbIdx]
           name == collections[colIdx]
           count == CountDocuments(mongo, db, colIdx)
           trCount == Append(trace, Call("count_documents", db, name, 0))
           trDelete == Append(trCount, Call("delete_many", db, name, 0))
       IN  \/ /\ IsSystem(name)
              /\ colIdx' = colIdx + 1
              /\ UNCHANGED <<pc, exitCode, trace, fails, mongo, client, dbIdx,
                             collections>>
           \/ /\ ~IsSystem(name)
              /\ mongo' = DeleteMany(mongo, db, colIdx)
              /\ trace' = Append(trDelete, log("Deleted", db, name, count))
              /\ colIdx' = colIdx + 1
              /\ UNCHANGED <<pc, exitCode, fails, client, dbIdx, collections>>
           \/ /\ ~IsSystem(name)
              /\ fails < MaxFails
              /\ fails' = fails + 1
              /\ \E tr \in {trCount, trDelete} : CollectionFailed(tr, db, name)
              /\ UNCHANGED mongo
    /\ UNCHANGED <<script, run, mongo0>>
    /\ UNCHANGED purgerVars

\* line 93: the collection loop is over
WDatabaseCleaned ==
    /\ script = "wiper"
    /\ pc = "col_loop"
    /\ colIdx > Len(collections)
    /\ trace' = Append(trace, log("Database cleaned", DATABASES[dbIdx], "", 0))
    /\ dbIdx' = dbIdx + 1
    /\ pc' = "db_loop"
    /\ UNCHANGED <<script, exitCode, run, fails, mongo, mongo0, client,
                   collections, colIdx>>
    /\ UNCHANGED purgerVars

\* lines 95-100: the database loop is over
WFinish ==
    /\ script = "wiper"
    /\ pc = "db_loop"
    /\ dbIdx > Len(DATABASES)
    /\ trace' = trace \o <<log("Cleanup completed successfully", "", "", 0),
                           Call("close", "", "", 0),
                           log("connection closed", "", "", 0)>>
    /\ client' = "closed"
    /\ exitCode' = 0
    /\ pc' = "exited"
    /\ UNCHANGED <<script, run, fails, mongo, mongo0, dbIdx, collections,
                   colIdx>>
    /\ UNCHANGED purgerVars

\* lines 106-107: the script is invoked again, against the state it left
WInvokeAgain ==
    /\ script = "wiper"
    /\ pc = "exited"
    /\ run < MaxRuns
    /\ run' = run + 1
    /\ pc' = "connect"
    /\ exitCode' = -1
    /\ trace' = <<>>
    /\ client' = "none"
    /\ dbIdx' = 1
    /\ collections' = <<>>
    /\ colIdx' = 1
    /\ mongo0' = mongo
    /\ UNCHANGED <<script, fails, mongo>>
    /\ UNCHANGED purgerVars

(***************************************************************************)
(* Key Pattern Purger: scripts/cleanup-redis.py, main()                    *)
(***************************************************************************)

\* the answers typed at the prompt, as sequences of characters
Yes == <<"y", "e", "s">>

Responses ==
    { Yes, <<"Y", "E", "S">>, <<"Y", "e", "s">>, <<" ", "y", "e", "s","\t">>,
      <<"n", "o">>, <<"\t", "N", "O">>, <<>>, <<"y">>, <<"y", "e", "s", "s">>,
      <<"y", " ", "e", "s">> }

\* str.lower
LowerChar(c) ==
    CASE c = "Y" -> "y"
      [] c = "E" -> "e"
      [] c = "S" -> "s"
      [] c = "N" -> "n"
      [] c = "O" -> "o"
      [] OTHER -> c

Lower(s) == [i \in 1..Len(s) |-> LowerChar(s[i])]

\* str.strip
IsSpace(c) == c \in {" ", "\t", "\n", "\r"}

RECURSIVE LStrip(_)
LStrip(s) == IF s = <<>> \/ ~IsSpace(Head(s)) THEN s ELSE LStrip(Tail(s))

RECURSIVE RStrip(_)
RStrip(s) ==
    IF s = <<>> \/ ~IsSpace(s[Len(s)]) THEN s ELSE RStrip(SubSeq(s, 1, Len(s) - 1))

Strip(s) == RStrip(LStrip(s))

\* line 44: input(...).strip().lower()
Normalize(r) == Lower(Strip(r))

\* line 46: confirm != 'yes'
ConfirmedNotNo(c) == c # <<"n", "o">>

Confirmed(c) == c = Yes

\* line 27: not keys
NoKeysNever(ks) == FALSE

NoKeys(ks) == Len(ks) = 0

\* line 56: deleted % 100 == 0
ProgressDueOffByOne(d) == (d + 1) % ProgressEvery = 0

ProgressDue(d) == d % ProgressEvery = 0

\* the Redis server: the glob "inventory:event:processed:*" matches the
\* keys numbered from 1; key 0 is a key of another namespace
Matches(k) == k >= 1

\* r.keys(pattern): the matching keys in keyspace order
KeysMatching(store) == SelectSeq(store, Matches)

\* r.delete(key)
RedisDelete(store, key) == SelectSeq(store, LAMBDA k : k # key)

\* key.decode('utf-8') raises on bytes that are not UTF-8
Decodable(key) == key \notin badKeys

Min(a, b) == IF a < b THEN a ELSE b

\* lines 61-66: the two top-level handlers, both exit 1
PurgerAbort(tr, kind) ==
    /\ trace' = Append(tr, log(IF kind = "ConnectionError"
                                THEN "Failed to connect to Redis"
                                ELSE "Error", "", "", 0))
    /\ exitCode' = ExitFailure
    /\ pc' = "exited"

\* line 20 raising
PingFailedGoOn(tr, kind) ==
    /\ trace' = Append(tr, log("Error", "", "", 0))
    /\ pc' = "scan"
    /\ UNCHANGED exitCode

PingFailed(tr, kind) == PurgerAbort(tr, kind)

\* lines 25, 35 or 54 raising after the liveness check
CallFailed(tr, kind) == PurgerAbort(tr, kind)

ErrorKinds == {"ConnectionError", "Exception"}

\* lines 17-21: connect and ping
PConnect ==
    /\ script = "purger"
    /\ pc = "connect"
    /\ LET tr == trace \o <<log("Connecting", "", "", 0), Call("ping", "", "", 0)>>
       IN  \/ /\ trace' = Append(tr, log("Connected", "", "", 0))
              /\ pc' = "scan"
              /\ UNCHANGED exitCode
           \/ \E kind \in ErrorKinds : PingFailed(tr, kind)
    /\ UNCHANGED <<script, run, fails>>
    /\ UNCHANGED wiperVars
    /\ UNCHANGED purgerVars

\* lines 24-32: scan for the pattern
PScan ==
    /\ script = "purger"
    /\ pc = "scan"
    /\ LET tr == Append(trace, Call("keys", "", "", 0))
           ks == KeysMatching(kv)
       IN  \/ /\ \E kind \in ErrorKinds : CallFailed(tr, kind)
              /\ UNCHANGED keys
           \/ /\ NoKeys(ks)
              /\ keys' = ks
              /\ trace' = Append(tr, log("No keys found", "", "", 0))
              /\ exitCode' = 0
              /\ pc' = "exited"
           \/ /\ ~NoKeys(ks)
              /\ keys' = ks
              /\ trace' = tr \o <<log("Found", "", "", Len(ks)),
                                  log("Sample keys", "", "", 0)>>
              /\ pc' = "preview"
              /\ UNCHANGED exitCode
    /\ UNCHANGED <<script, run, fails, kv, kv0, badKeys, previewIdx, response,
                   confirm, deleted>>
    /\ UNCHANGED wiperVars

\* lines 33-36: one iteration of the preview loop over keys[:10]
PPreview ==
    /\ script = "purger"
    /\ pc = "preview"
    /\ previewIdx <= Min(Len(keys), PreviewLen)
    /\ LET key == keys[previewIdx]
           tr == Append(trace, Call("ttl", "", "", key))
       IN  \/ /\ ~Decodable(key)
              /\ CallFailed(trace, "Exception")
              /\ UNCHANGED previewIdx
           \/ /\ Decodable(key)
              /\ \E kind \in ErrorKinds : CallFailed(tr, kind)
              /\ UNCHANGED previewIdx
           \/ /\ Decodable(key)
              /\ trace' = Append(tr, log("sample", "", "", key))
              /\ previewIdx' = previewIdx + 1
              /\ UNCHANGED <<pc, exitCode>>
    /\ UNCHANGED <<script, run, fails, kv, kv0, badKeys, keys, response,
                   confirm, deleted>>
    /\ UNCHANGED wiperVars

\* lines 38-52: the end of the preview, the prompt and the answer
PConfirm ==
    /\ script = "purger"
    /\ pc = "preview"
    /\ previewIdx > Min(Len(keys), PreviewLen)
    /\ LET more == IF Len(keys) > PreviewLen
                   THEN log("more keys", "", "", Len(keys) - PreviewLen)
                   ELSE log("", "", "", 0)
           tr == trace \o <<more,
                            log("Delete all keys? (yes/no)", "", "", Len(keys))>>
       IN  \/ /\ CallFailed(tr, "Exception")    \* input() raises EOFError
              /\ UNCHANGED <<response, confirm, deleted>>
           \/ \E r \in Responses :
                /\ response' = r
                /\ confirm' = Normalize(r)
                /\ IF ~Confirmed(confirm')
                   THEN /\ trace' = Append(tr, log("Deletion cancelled", "", "", 0))
                        /\ exitCode' = 0
                        /\ pc' = "exited"
                        /\ UNCHANGED deleted
                   ELSE /\ trace' = Append(tr, log("Deleting", "", "", Len(keys)))
                        /\ deleted' = 0
                        /\ pc' = "delete"
                        /\ UNCHANGED exitCode
    /\ UNCHANGED <<script, run, fails, kv, kv0, badKeys, keys, previewIdx>>
    /\ UNCHANGED wiperVars

\* lines 53-57: one iteration of the deletion loop
PDelete ==
    /\ script = "purger"
    /\ pc = "delete"
    /\ deleted < Len(keys)
    /\ LET key == keys[deleted + 1]
           tr == Append(trace, Call("delete", "", "", key))
       IN  \/ /\ \E kind \in ErrorKinds : CallFailed(tr, kind)
              /\ UNCHANGED <<kv, deleted>>
           \/ /\ kv' = RedisDelete(kv, key)
              /\ deleted' = deleted + 1
              /\ trace' = IF ProgressDue(deleted')
                          THEN Append(tr, log("progress", "", "", deleted'))
                          ELSE tr
              /\ UNCHANGED <<pc, exitCode>>
    /\ UNCHANGED <<script, run, fails, kv0, badKeys, keys, previewIdx, response,
                   confirm>>
    /\ UNCHANGED wiperVars

\* line 59: the deletion loop is over
PFinish ==
    /\ script = "purger"
    /\ pc = "delete"
    /\ deleted = Len(keys)
    /\ trace' = Append(trace, log("Successfully deleted", "", "", deleted))
    /\ exitCode' = 0
    /\ pc' = "exited"
    /\ UNCHANGED <<script, run, fails>>
    /\ UNCHANGED wiperVars
    /\ UNCHANGED purgerVars

(***************************************************************************)
(* The specification.                                                      *)
(***************************************************************************)
KeyCounts == {0, 1, 2, 11, 100, 101, 200, MaxKeys}

NoStore == [d \in {"inventory", "order", "payment", "product", "auth"} |-> Absent]

Init ==
    /\ script \in {"wiper", "purger"}
    /\ pc = "connect"
    /\ exitCode = -1
    /\ trace = <<>>
    /\ run = 1
    /\ fails = 0
    /\ mongo \in (IF script = "wiper" THEN Stores ELSE {NoStore})
    /\ mongo0 = mongo
    /\ client = "none"
    /\ dbIdx = 1
    /\ collections = <<>>
    /\ colIdx = 1
    /\ \E n \in (IF script = "purger" THEN KeyCounts ELSE {0}) :
         kv = <<0>> \o [i \in 1..n |-> i]
    /\ kv0 = kv
    /\ badKeys \in (IF script = "purger" THEN {{}, {2}} ELSE {{}})
    /\ keys = <<>>
    /\ previewIdx = 1
    /\ response = <<>>
    /\ confirm = <<>>
    /\ deleted = 0

Next ==
    \/ WConnect
    \/ WNextDb
    \/ WCollection
    \/ WDatabaseCleaned
    \/ WFinish
    \/ WInvokeAgain
    \/ PConnect
    \/ PScan
    \/ PPreview
    \/ PConfirm
    \/ PDelete
    \/ PFinish

Spec == Init /\ [][Next]_vars

(***************************************************************************)
(* Reading the trace.                                                      *)
(***************************************************************************)
ErrorLogs == {"ERROR", "Error", "Failed to connect to Redis"}

HasOp(op) == \E i \in DOMAIN trace : trace[i].op = op

\* the events of trace with operation op, in order
OpsOf(op) == SelectSeq(trace, LAMBDA e : e.op = op)

\* event i is directly followed by an event whose operation is in ops
FollowedBy(i, ops) == i < Len(trace) /\ trace[i + 1].op \in ops

\* the call at i raised into a top-level handler
RaisedToTop(i) == FollowedBy(i, ErrorLogs)

\* the liveness check of this process failed / succeeded
LivenessCheckFailed ==
    \E i \in DOMAIN trace : trace[i].op \in {"server_info", "ping"} /\ RaisedToTop(i)

LivenessCheckPassedBefore(i) ==
    \E j \in 1..(i - 1) :
        trace[j].op \in {"server_info", "ping"} /\ trace[j + 1].op = "Connected"

DeleteOps == {"delete_many", "delete"}

NoDeleteIssued == \A i \in DOMAIN trace : trace[i].op \notin DeleteOps

\* Wiper: databases whose enumeration returned, and their collections
EnumeratedDbs ==
    { trace[i].db : i \in { j \in DOMAIN trace :
                               trace[j].op \in {"Found", "No collections found"} } }

EnumeratedColls ==
    UNION { { <<db, mongo0[db][k].name>> : k \in DOMAIN mongo0[db] } : db \in EnumeratedDbs }

TargetsOf(op) ==
    { <<trace[i].db, trace[i].coll>> : i \in { j \in DOMAIN trace : trace[j].op = op } }

CountFailedColls ==
    { <<trace[i].db, trace[i].coll>> :
        i \in { j \in DOMAIN trace : /\ trace[j].op = "count_documents"
                                      /\ FollowedBy(j, {"Failed to clean"}) } }

NonSystemColls == { c \in EnumeratedColls : ~StartsWith(c[2], "system.") }

(***************************************************************************)
(* C1                                                                      *)
(***************************************************************************)
\* C1 as stated: no count_documents or delete_many is ever issued against a
\* collection whose name starts with "system.", and when the run has ended
\* the collections that received a delete_many are exactly the enumerated
\* collections whose name does not start with "system.".
C1_AsClaimed ==
    script = "wiper" =>
      /\ \A i \in DOMAIN trace :
            trace[i].op \in {"count_documents", "delete_many"}
               => ~StartsWith(trace[i].coll, "system.")
      /\ pc = "exited" => TargetsOf("delete_many") = NonSystemColls

\* C1 amended: no count_documents or delete_many is ever issued against a
\* collection whose name starts with "system."; every collection that
\* receives a delete_many is an enumerated collection whose name does not
\* start with "system."; and when the run has ended the collections that
\* received a delete_many are exactly the enumerated non-system collections
\* whose count_documents call did not fail.
C1_SystemCollectionsUntouched ==
    script = "wiper" =>
      /\ \A i \in DOMAIN trace :
            trace[i].op \in {"count_documents", "delete_many"}
               => ~StartsWith(trace[i].coll, "system.")
      /\ TargetsOf("delete_many") \subseteq NonSystemColls
      /\ pc = "exited" =>
            TargetsOf("delete_many") = NonSystemColls \ CountFailedColls

\* a finished run that enumerated a system collection, lost one collection
\* to a failing count_documents and deleted from others
C1_Witness ==
    /\ script = "wiper"
    /\ pc = "exited"
    /\ \E c \in EnumeratedColls : StartsWith(c[2], "system.")
    /\ CountFailedColls # {}
    /\ TargetsOf("delete_many") # {}

(***************************************************************************)
(* C2                                                                      *)
(***************************************************************************)
RECURSIVE NonSystemFrom(_, _)
\* the non-system collections of st, database by database from DATABASES[d]
NonSystemFrom(st, d) ==
    IF d > Len(DATABASES) THEN <<>>
    ELSE LET db == DATABASES[d]
             all == [k \in DOMAIN st[db] |-> <<db, st[db][k].name>>]
         IN  SelectSeq(all, LAMBDA c : ~StartsWith(c[2], "system."))
                \o NonSystemFrom(st, d + 1)

CountCallTargets ==
    LET cs == OpsOf("count_documents")
    IN  [k \in DOMAIN cs |-> <<cs[k].db, cs[k].coll>>]

SameTarget(i, j) == trace[i].db = trace[j].db /\ trace[i].coll = trace[j].coll

\* no liveness check and no enumeration of this process has failed
NoFailureOutsideCollections ==
    \A i \in DOMAIN trace :
        trace[i].op \in {"server_info", "list_collection_names"} => ~RaisedToTop(i)

\* C2: a failing count_documents or delete_many is followed by the line
\* "Failed to clean" naming that collection and by nothing else of the
\* handler; and a run in which only such calls failed ends with the success
\* line, the connection closed and exit status 0, having attempted every
\* non-system collection of every database of the list, in order.
C2_FailureIsolation ==
    script = "wiper" =>
      /\ \A i \in DOMAIN trace :
            trace[i].op = "count_documents" =>
               /\ FollowedBy(i, {"delete_many", "Failed to clean"})
               /\ SameTarget(i, i + 1)
      /\ \A i \in DOMAIN trace :
            trace[i].op = "delete_many" =>
               /\ FollowedBy(i, {"Deleted", "Failed to clean"})
               /\ SameTarget(i, i + 1)
      /\ \A i \in DOMAIN trace :
            trace[i].op = "Failed to clean" =>
               \/ i = Len(trace) /\ pc = "col_loop" /\ exitCode = -1
               \/ FollowedBy(i, {"count_documents", "Database cleaned"})
      /\ (pc = "exited" /\ NoFailureOutsideCollections) =>
            /\ exitCode = 0
            /\ client = "closed"
            /\ HasOp("Cleanup completed successfully")
            /\ CountCallTargets = NonSystemFrom(mongo0, 1)

\* a run that lost two collections and still cleaned a later one and exited 0
C2_Witness ==
    /\ script = "wiper"
    /\ pc = "exited"
    /\ exitCode = 0
    /\ Len(OpsOf("Failed to clean")) = 2
    /\ \E i, j \in DOMAIN trace :
          i < j /\ trace[i].op = "Failed to clean" /\ trace[j].op = "Deleted"

(***************************************************************************)
(* C3                                                                      *)
(***************************************************************************)
\* the process ended in the handler the claim calls the connectivity-failure
\* path: the Wiper's liveness check raised, or the Purger printed
\* "Failed to connect to Redis"
EndedOnConnectivityPath ==
    /\ pc = "exited"
    /\ \/ script = "wiper" /\ LivenessCheckFailed
       \/ script = "purger" /\ trace[Len(trace)].op = "Failed to connect to Redis"

\* C3 as stated: a run that ends on the connectivity-failure path (the
\* Purger's being the redis.ConnectionError handler) exits non-zero and has
\* issued no delete.
C3_AsClaimed ==
    EndedOnConnectivityPath => exitCode # 0 /\ NoDeleteIssued

\* C3 amended: a run whose liveness check (server_info, ping) failed exits
\* with status 1, has issued no delete and has left the store as it was; and
\* no delete is issued before the liveness check has succeeded.  (The
\* Purger's redis.ConnectionError handler also ends runs whose later calls
\* raise it, after deletes.)
C3_NoDamageOnLivenessFailure ==
    /\ LivenessCheckFailed =>
          /\ pc = "exited"
          /\ exitCode = 1
          /\ NoDeleteIssued
          /\ mongo = mongo0
          /\ kv = kv0
    /\ \A i \in DOMAIN trace :
          trace[i].op \in DeleteOps => LivenessCheckPassedBefore(i)

\* the Purger's ping raised ConnectionError
C3_Witness ==
    /\ script = "purger"
    /\ pc = "exited"
    /\ exitCode = 1
    /\ Len(trace) = 3
    /\ trace[2].op = "ping"
    /\ trace[3].op = "Failed to connect to Redis"

(***************************************************************************)
(* C4                                                                      *)
(***************************************************************************)
\* the prompt was answered
Answered == HasOp("Deletion cancelled") \/ HasOp("Deleting")

\* C4 as stated: when keys were found and the answer is anything other than
\* "yes", no delete is issued, the store is unchanged and the exit status
\* is 0.
C4_AsClaimed ==
    (script = "purger" /\ Answered /\ response # Yes) =>
        /\ NoDeleteIssued
        /\ kv = kv0
        /\ pc = "exited" => exitCode = 0

\* C4 amended: when keys were found and the answer, with surrounding
\* whitespace stripped and lower-cased, is anything other than "yes", no
\* delete is issued, the store is unchanged and the exit status is 0; a
\* delete is issued only after an answer that strips and lower-cases to
\* "yes" has been read.
C4_NoDeleteWithoutYes ==
    script = "purger" =>
      /\ (Answered /\ Lower(Strip(response)) # <<"y", "e", "s">>) =>
            /\ Len(keys) >= 1
            /\ NoDeleteIssued
            /\ kv = kv0
            /\ pc = "exited" /\ exitCode = 0
      /\ ~NoDeleteIssued =>
            Answered /\ Lower(Strip(response)) = <<"y", "e", "s">>

\* the answer "y" to a prompt about 11 keys
C4_Witness ==
    /\ script = "purger"
    /\ Answered
    /\ response = <<"y">>
    /\ Len(keys) = 11
    /\ exitCode = 0

(***************************************************************************)
(* C5                                                                      *)
(***************************************************************************)
\* the scan of this process returned
ScanReturned ==
    \E i \in DOMAIN trace : trace[i].op = "keys" /\ ~RaisedToTop(i)

\* C5: when the scan returns no key the run has ended with exit status 0,
\* without the prompt, without a TTL query and without a delete.
C5_NoKeysNoPrompt ==
    (script = "purger" /\ ScanReturned /\ Len(SelectSeq(kv0, Matches)) = 0) =>
        /\ pc = "exited"
        /\ exitCode = 0
        /\ trace[Len(trace)].op = "No keys found"
        /\ ~HasOp("Delete all keys? (yes/no)")
        /\ ~HasOp("ttl")
        /\ NoDeleteIssued
        /\ kv = kv0

C5_Witness ==
    /\ script = "purger"
    /\ ScanReturned
    /\ keys = <<>>
    /\ kv0 = <<0>>
    /\ exitCode = 0

(***************************************************************************)
(* C6                                                                      *)
(***************************************************************************)
\* position in DATABASES
DbPos(db) == CHOOSE d \in DOMAIN DATABASES : DATABASES[d] = db

\* C6: when the enumeration of a database returns no collection, the next
\* line is "No collections found" for it, no count_documents or delete_many
\* is issued for it, its server state is unchanged, and the run goes on
\* with the next database of the list (or with the end of the run).
C6_AbsentDatabaseSkipped ==
    script = "wiper" =>
      \A i \in DOMAIN trace :
         (/\ trace[i].op = "list_collection_names"
          /\ ~RaisedToTop(i)
          /\ Len(mongo0[trace[i].db]) = 0) =>
            LET db == trace[i].db
            IN  /\ FollowedBy(i, {"No collections found"})
                /\ trace[i + 1].db = db
                /\ \A j \in DOMAIN trace :
                      trace[j].op \in {"count_documents", "delete_many"}
                         => trace[j].db # db
                /\ mongo[db] = mongo0[db]
                /\ IF i + 1 = Len(trace)
                   THEN pc = "db_loop" /\ exitCode = -1 /\ dbIdx = DbPos(db) + 1
                   ELSE IF DbPos(db) < Len(DATABASES)
                   THEN /\ trace[i + 2].op = "Cleaning database"
                        /\ trace[i + 2].db = DATABASES[DbPos(db) + 1]
                   ELSE trace[i + 2].op = "Cleanup completed successfully"

\* an absent database in the middle of the list, in a run that went on to
\* delete from a later database
C6_Witness ==
    /\ script = "wiper"
    /\ pc = "exited"
    /\ exitCode = 0
    /\ \E i, j \in DOMAIN trace :
          /\ i < j
          /\ trace[i].op = "No collections found"
          /\ trace[j].op = "delete_many"

(***************************************************************************)
(* C7                                                                      *)
(***************************************************************************)
\* the positions in trace of the delete calls and of the progress lines
PositionsOf(op) ==
    SelectSeq([i \in DOMAIN trace |-> i], LAMBDA i : trace[i].op = op)

\* no call of this process has raised
NoCallRaised == \A i \in DOMAIN trace : trace[i].op \notin ErrorLogs

AllNonSystemEmpty(st) ==
    \A d \in DOMAIN DATABASES :
       \A k \in DOMAIN st[DATABASES[d]] :
          LET c == st[DATABASES[d]][k]
          IN  ~StartsWith(c.name, "system.") => c.docs = 0

\* C8: with no call failing, a second run starts from a store in which
\* every non-system collection of the listed databases is empty, changes
\* nothing in the store and reports 0 documents for each collection.
C8_SecondRunChangesNothing ==
    (script = "wiper" /\ run >= 2 /\ fails = 0) =>
        /\ AllNonSystemEmpty(mongo0)
        /\ mongo = mongo0
        /\ \A i \in DOMAIN trace : trace[i].op = "Deleted" => trace[i].n = 0

\* a finished second run over existing collections
C8_Witness ==
    /\ script = "wiper"
    /\ run = 2
    /\ fails = 0
    /\ pc = "exited"
    /\ exitCode = 0
    /\ Len(OpsOf("Deleted")) = 6

(***************************************************************************)
(* C9                                                                      *)
(***************************************************************************)
RECURSIVE SumN(_)
SumN(evs) == IF evs = <<>> THEN 0 ELSE Head(evs).n + SumN(Tail(evs))

RECURSIVE SumDocs(_)
SumDocs(cs) == IF cs = <<>> THEN 0 ELSE Head(cs).docs + SumDocs(Tail(cs))

RECURSIVE TotalDocsFrom(_, _)
TotalDocsFrom(st, d) ==
    IF d > Len(DATABASES) THEN 0
    ELSE SumDocs(st[DATABASES[d]]) + TotalDocsFrom(st, d + 1)

DocsIn(st, db, name) ==
    LET k == CHOOSE j \in DOMAIN st[db] : st[db][j].name = name
    IN  st[db][k].docs

ThreeByTwoByFive ==
    [inventory |-> Plain, order |-> Plain, payment |-> Plain,
     product |-> Absent, auth |-> Absent]

\* C9: every "Deleted n" line carries the number of documents its collection
\* held, and the reported counts sum to the number of documents removed; a
\* run with no failure reports one count per non-system collection, in
\* order, and exits 0; against 3 databases of 2 collections of 5 documents
\* that is 6 counts summing to 30.
C9_ReportedCounts ==
    script = "wiper" =>
      LET rep == OpsOf("Deleted")
      IN  /\ \A k \in DOMAIN rep : rep[k].n = DocsIn(mongo0, rep[k].db, rep[k].coll)
          /\ SumN(rep) = TotalDocsFrom(mongo0, 1) - TotalDocsFrom(mongo, 1)
          /\ (pc = "exited" /\ NoCallRaised /\ ~HasOp("Failed to clean")) =>
                /\ exitCode = 0
                /\ [k \in DOMAIN rep |-> <<rep[k].db, rep[k].coll>>]
                      = NonSystemFrom(mongo0, 1)
                /\ mongo0 = ThreeByTwoByFive => Len(rep) = 6 /\ SumN(rep) = 30

C9_Witness ==
    /\ script = "wiper"
    /\ run = 1
    /\ mongo0 = ThreeByTwoByFive
    /\ pc = "exited"
    /\ exitCode = 0
    /\ fails = 0
    /\ Len(OpsOf("Deleted")) = 6
    /\ SumN(OpsOf("Deleted")) = 30

(***************************************************************************)
(* C10                                                                     *)
(***************************************************************************)
\* C10: an error line of a top-level handler is the last event of the
\* process, which has exited with status 1; the Wiper has not closed its
\* connection, has deleted only from databases before the one whose
\* enumeration failed, and what was deleted stays deleted; the Purger has
\* deleted exactly the first `deleted` scanned keys and no other.
C10_TopLevelErrorAborts ==
    \A i \in DOMAIN trace :
       trace[i].op \in ErrorLogs =>
          /\ i = Len(trace)
          /\ pc = "exited"
          /\ exitCode = 1
          /\ script = "wiper" =>
                /\ client # "closed"
                /\ ~HasOp("close")
                /\ trace[i - 1].op \in {"server_info", "list_collection_names"}
                /\ \A j \in DOMAIN trace :
                      trace[j].op = "delete_many" =>
                         /\ DbPos(trace[j].db) < dbIdx
                         /\ FollowedBy(j, {"Deleted"})
                               => DocsIn(mongo, trace[j].db, trace[j].coll) = 0
          /\ script = "purger" =>
                /\ Len(OpsOf("delete")) \in {deleted, deleted + 1}
                /\ kv = SelectSeq(kv0, LAMBDA k :
                                     \A m \in 1..deleted : keys[m] # k)

\* the Wiper aborted by a failing enumeration after it had deleted from an
\* earlier database
C10_Witness ==
    /\ script = "wiper"
    /\ pc = "exited"
    /\ exitCode = 1
    /\ HasOp("Deleted")
    /\ trace[Len(trace) - 1].op = "list_collection_names"
    /\ dbIdx < Len(DATABASES)

====
